---------------------------- MODULE Spec2Model ----------------------------
(***************************************************************************)
(* Account store of the wallet (src/unnamed/part_001): the signed          *)
(* transaction list and the three REST announce actions, the websocket     *)
(* subscription registry, and the current account / current signer         *)
(* session.  Several specifications share the variables:                     *)
(*   Spec         signed transactions and REST_ANNOUNCE_*                   *)
(*   SpecSubs     SUBSCRIBE / UNSUBSCRIBE and the handles they open         *)
(*   SpecSession  SET_CURRENT_ACCOUNT, SET_CURRENT_SIGNER,                  *)
(*                RESET_CURRENT_ACCOUNT, uninitialize, each run to its end  *)
(*   SpecStore    SpecSession with the actions that set the known accounts  *)
(*   SpecTasks    the same session actions interleaved at their awaits      *)
(* and one is about the AccountsRepository of the accounts database         *)
(* (src/src/core/transactions/ViewNamespaceRegistrationTransaction.ts):     *)
(*   SpecRepository  create, read, update and delete                        *)
(***************************************************************************)
EXTENDS Integers, Sequences, FiniteSets, TLC

VARIABLES
  signedTransactions,  \* state.signedTransactions: SignedTransaction[]
  call,                \* the announce action in flight, its position and result
  subscriptions,       \* state.subscriptions: Record<string, SubscriptionType[]>
  opened,              \* every handle set subscribeTransactionChannels has opened
  closeLog,            \* the close calls the handles have received, in call order
  closeFailures,       \* number of close calls that have thrown
  lastOp,              \* the websocket action dispatched last, and how it ended
  state,               \* the account and signer fields of AccountState
  chain,               \* the multisig relationships the network reports
  sessionOp,           \* the session action dispatched last, and how it ended
  trail,               \* the last signer transitions run one after another
  tasks,               \* the session actions in flight, each at its await
  lock,                \* the task holding the initialize/uninitialize lock
  collection,          \* AccountsRepository._collection: Map<string, AccountsModel>
  storage,             \* what persist() wrote last to the storage adapter
  repoOp,              \* the repository operation called last, and how it ended
  created              \* the identifiers created and not deleted since

(***************************************************************************)
(* Bounds                                                                  *)
(***************************************************************************)
NumHashes == 3
MaxSigned == 3
MaxOpened == 3
NumStreams == 2
MaxCloseFailures == 1

\* issuer.length the aggregate-bonded announce requires
IssuerLength == 40

Hashes == 1..NumHashes
\* a SignedTransaction, identified by its content hash
SignedTransaction == [hash : Hashes]
NoTransaction == [hash |-> 0]
\* issuer argument, by its length; 0 is a missing (falsy) issuer
Issuers == {0, IssuerLength - 1, IssuerLength}
\* errors the network collaborators raise
NetworkErrors == {"Failure_Core_Insufficient_Balance"}
TimeoutMessage == "Aggregate transaction broadcast timed out"

(***************************************************************************)
(* Array helpers, 0-based as in the source                                 *)
(***************************************************************************)
Min(a, b) == IF a < b THEN a ELSE b
Max(a, b) == IF a > b THEN a ELSE b

\* Array.prototype.findIndex with the predicate tx.hash === transaction.hash
FindIndexByHash(signed, hash) ==
  IF \E i \in 1..Len(signed) : signed[i].hash = hash
  THEN (CHOOSE i \in 1..Len(signed) :
          /\ signed[i].hash = hash
          /\ \A j \in 1..(i - 1) : signed[j].hash # hash) - 1
  ELSE -1

\* Array.prototype.splice(start, deleteCount): the clamped start and count
SpliceStart(arr, start) ==
  IF start < 0 THEN Max(Len(arr) + start, 0) ELSE Min(start, Len(arr))
SpliceCount(arr, start, deleteCount) ==
  Min(Max(deleteCount, 0), Len(arr) - SpliceStart(arr, start))
\* the elements splice returns
SpliceRemoved(arr, start, deleteCount) ==
  SubSeq(arr, SpliceStart(arr, start) + 1,
         SpliceStart(arr, start) + SpliceCount(arr, start, deleteCount))
\* the array splice leaves behind (it mutates its receiver)
SpliceRest(arr, start, deleteCount) ==
  SubSeq(arr, 1, SpliceStart(arr, start))
    \o SubSeq(arr, SpliceStart(arr, start) + SpliceCount(arr, start, deleteCount) + 1,
              Len(arr))

(***************************************************************************)
(* Mutations of the signed transaction list                                *)
(***************************************************************************)
\* number of entries of `signed` with the given hash
CountHash(signed, hash) == Cardinality({i \in 1..Len(signed) : signed[i].hash = hash})

\* mutation addSignedTransaction: push
AddSigned(signed, transaction) == Append(signed, transaction)

\* mutant: the usual signed.splice(idx, 1), which for idx = -1 drops the last
\* entry
RemoveSigned_SpliceAtIndex(signed, transaction) ==
  SpliceRest(signed, FindIndexByHash(signed, transaction.hash), 1)

\* mutation removeSignedTransaction: idx is never undefined, so the early
\* return is dead; the first splice shortens `signed` before the second reads it
RemoveSigned(signed, transaction) ==
  LET idx    == FindIndexByHash(signed, transaction.hash)
      head   == SpliceRemoved(signed, 0, idx)
      signed1 == SpliceRest(signed, 0, idx)
      tail   == SpliceRemoved(signed1, idx + 1, Len(signed1) - idx - 1)
  IN  head \o tail

(***************************************************************************)
(* BroadcastResult and the announce pipeline                               *)
(***************************************************************************)
BroadcastResult(subject, success, error) ==
  [kind |-> "BroadcastResult", subject |-> subject, success |-> success, error |-> error]
\* an async action that returns without a value
Undefined == [kind |-> "undefined"]
\* a rejected promise
Thrown(error) == [kind |-> "thrown", error |-> error]
NoResult == [kind |-> "pending"]
\* Error.prototype.toString
ErrorToString(e) == "Error: " \o e

\* observable notifications
NextN(v) == [kind |-> "next", value |-> v]
ErrorN(e) == [kind |-> "error", value |-> e]

\* catchError((error) => of(new BroadcastResult(signedPartial, false, error)))
CatchError(n, signedPartial) ==
  IF n.kind = "error" THEN NextN(BroadcastResult(signedPartial, FALSE, n.value)) ELSE n
\* mapTo(new BroadcastResult(signedPartial, true))
MapTo(n, signedPartial) ==
  IF n.kind = "next" THEN NextN(BroadcastResult(signedPartial, TRUE, "")) ELSE n
\* mutant: `timeout` in place of `timeoutWith`, the expiry raises an error
TimeoutWith_Throws(signedPartial) == ErrorN("TimeoutError")
\* the replacement observable of timeoutWith
TimeoutWith(signedPartial) == NextN(BroadcastResult(signedPartial, FALSE, TimeoutMessage))
\* toPromise: resolves with the value, rejects with the error
ToPromise(n) == IF n.kind = "next" THEN n.value ELSE Thrown(n.value)

IdleCall ==
  [op |-> "none", pc |-> "idle", issuer |-> 0, signedLock |-> NoTransaction,
   subject |-> NoTransaction, result |-> NoResult, removals |-> 0, announces |-> 0,
   settledBy |-> "none", late |-> "none", lockWasSigned |-> FALSE,
   subjectWasSigned |-> FALSE]

(***************************************************************************)
(* Addresses and the subscription registry                                 *)
(***************************************************************************)
\* plain (raw string) addresses
PlainAddresses == {"TA", "TB", "TX"}
\* an Address object
Address == [address : PlainAddresses]
Null == [address |-> ""]
\* Address.createFromRawAddress and Address.plain
CreateFromRawAddress(raw) == [address |-> raw]
Plain(address) == address.address

\* RESTService.subscribeTransactionChannels: the k-th call opens one listener
\* and NumStreams stream subscriptions on it
SubscribeTransactionChannels(k) ==
  [listener |-> <<k, 0>>, subscriptions |-> [j \in 1..NumStreams |-> <<k, j>>]]

\* state.subscriptions[address] || []
SubscriptionsOf(subs, address) ==
  IF address \in DOMAIN subs THEN subs[address] ELSE <<>>

\* mutation updateSubscriptions; payload is <<>> for a null `subscriptions`
\* and <<subscriptionType>> otherwise
UpdateSubscriptions(subs, address, payload) ==
  IF payload = <<>>
  THEN [a \in DOMAIN subs \ {address} |-> subs[a]]
  ELSE [a \in DOMAIN subs \cup {address} |->
          IF a = address THEN SubscriptionsOf(subs, address) \o payload ELSE subs[a]]

\* mutant: each listener closed before its stream subscriptions
RECURSIVE CloseOrder_ListenerFirst(_)
CloseOrder_ListenerFirst(subscriptionTypes) ==
  IF subscriptionTypes = <<>> THEN <<>>
  ELSE <<Head(subscriptionTypes).listener>> \o Head(subscriptionTypes).subscriptions
         \o CloseOrder_ListenerFirst(Tail(subscriptionTypes))

\* the close calls of UNSUBSCRIBE's loops, in the order they are made: for each
\* entry its stream subscriptions, then its listener
RECURSIVE CloseOrder(_)
CloseOrder(subscriptionTypes) ==
  IF subscriptionTypes = <<>> THEN <<>>
  ELSE Head(subscriptionTypes).subscriptions \o <<Head(subscriptionTypes).listener>>
         \o CloseOrder(Tail(subscriptionTypes))

NoOp == [op |-> "none", address |-> "", outcome |-> "none", failAt |-> 0]

(***************************************************************************)
(* Accounts, signers and multisig information                              *)
(***************************************************************************)
PublicKeys == {"PA", "PB", "PX"}
\* Address.createFromPublicKey(publicKey, networkType)
CreateFromPublicKey(publicKey) ==
  CreateFromRawAddress(CASE publicKey = "PA" -> "TA"
                         [] publicKey = "PB" -> "TB"
                         [] publicKey = "PX" -> "TX")
\* the public key of the account at an address
PublicKeyOf(address) ==
  CASE Plain(address) = "TA" -> "PA"
    [] Plain(address) = "TB" -> "PB"
    [] Plain(address) = "TX" -> "PX"
\* the order the network lists addresses in
AddressOrder == <<"TA", "TB", "TX">>

\* the accounts of the profile (AccountModel), by identifier
AccountModel(id) ==
  [id |-> id, name |-> id,
   address |-> (CASE id = "A" -> "TA" [] id = "B" -> "TB"),
   publicKey |-> (CASE id = "A" -> "PA" [] id = "B" -> "PB")]
ProfileAccounts == <<"A", "B">>
NoAccount == [id |-> "", name |-> "", address |-> "", publicKey |-> ""]

\* AccountService.getKnownAccounts(identifiers)
GetKnownAccounts(identifiers) == [i \in 1..Len(identifiers) |-> AccountModel(identifiers[i])]

\* the multisig relationships <<cosignatory, multisig>> the network may hold
Chains == SUBSET {<<"TA", "TB">>, <<"TA", "TX">>}

\* the subsequence of seq whose elements satisfy being in S
RECURSIVE SelectIn(_, _)
SelectIn(seq, S) ==
  IF seq = <<>> THEN <<>>
  ELSE (IF Head(seq) \in S THEN <<Head(seq)>> ELSE <<>>) \o SelectIn(Tail(seq), S)

MultisigAccountInfo(ch, plain) ==
  [account |-> CreateFromRawAddress(plain),
   cosignatories |-> {p[1] : p \in {q \in ch : q[2] = plain}},
   multisigAddresses |-> SelectIn(AddressOrder, {p[2] : p \in {q \in ch : q[1] = plain}})]
NoMultisigInfo == [account |-> Null, cosignatories |-> {}, multisigAddresses |-> <<>>]

\* mutant: a failed multisig graph request answered as if it had succeeded
GetMultisigAccountsInfo_IgnoresFailure(ch, address, fails) ==
  LET a == Plain(address)
      nodes == {a} \cup {p[2] : p \in {q \in ch : q[1] = a}}
                   \cup {p[1] : p \in {q \in ch : q[2] = a}}
      graph == SelectIn(AddressOrder, nodes)
  IN  IF nodes = {a} THEN <<>>
      ELSE [i \in 1..Len(graph) |-> MultisigAccountInfo(ch, graph[i])]

\* getMultisigAccountGraphInfo(address) mapped by getMultisigInfoFromMultisigGraphInfo:
\* the infos of the accounts of the graph; an account with no relationship has
\* no graph (the request fails), and catchError turns any failure into []
GetMultisigAccountsInfo(ch, address, fails) ==
  LET a == Plain(address)
      nodes == {a} \cup {p[2] : p \in {q \in ch : q[1] = a}}
                   \cup {p[1] : p \in {q \in ch : q[2] = a}}
      graph == SelectIn(AddressOrder, nodes)
  IN  IF fails \/ nodes = {a} THEN <<>>
      ELSE [i \in 1..Len(graph) |-> MultisigAccountInfo(ch, graph[i])]

\* Array.prototype.find by account address; NoMultisigInfo is undefined
FindMultisigInfo(infos, address) ==
  IF \E i \in 1..Len(infos) : infos[i].account = address
  THEN infos[CHOOSE i \in 1..Len(infos) :
               /\ infos[i].account = address
               /\ \A j \in 1..(i - 1) : infos[j].account # address]
  ELSE NoMultisigInfo

\* MultisigService.getAccountLabel: the local name, else a shortened address
GetAccountLabel(plain, knownAccounts) ==
  IF \E i \in 1..Len(knownAccounts) : knownAccounts[i].address = plain
  THEN knownAccounts[CHOOSE i \in 1..Len(knownAccounts) :
                       knownAccounts[i].address = plain].name
  ELSE "..." \o plain

NoSigner == [label |-> "", publicKey |-> "", address |-> Null, multisig |-> FALSE]

\* MultisigService.getSigners: the account itself, then the multisig accounts
\* it cosigns
GetSigners(knownAccounts, currentAccount, currentAccountMultisigInfo) ==
  IF currentAccount = NoAccount THEN <<>>
  ELSE LET self == [label |-> currentAccount.name,
                    publicKey |-> currentAccount.publicKey,
                    address |-> CreateFromRawAddress(currentAccount.address),
                    multisig |-> currentAccountMultisigInfo.cosignatories # {}]
           ms == currentAccountMultisigInfo.multisigAddresses
       IN  <<self>> \o [i \in 1..Len(ms) |->
                          [label |-> GetAccountLabel(ms[i], knownAccounts),
                           publicKey |-> PublicKeyOf(CreateFromRawAddress(ms[i])),
                           address |-> CreateFromRawAddress(ms[i]),
                           multisig |-> TRUE]]

\* Array.prototype.find by signer address; NoSigner is undefined
FindSigner(signers, address) ==
  IF \E i \in 1..Len(signers) : signers[i].address = address
  THEN signers[CHOOSE i \in 1..Len(signers) :
                 /\ signers[i].address = address
                 /\ \A j \in 1..(i - 1) : signers[j].address # address]
  ELSE NoSigner

\* _.uniqBy(addresses, 'address'): the first occurrence of each address
RECURSIVE UniqByAddress(_)
UniqByAddress(addresses) ==
  IF addresses = <<>> THEN <<>>
  ELSE LET front == UniqByAddress(SubSeq(addresses, 1, Len(addresses) - 1))
           last  == addresses[Len(addresses)]
       IN  IF \E i \in 1..Len(front) : front[i].address = last.address
           THEN front ELSE Append(front, last)

\* accountState: the initial definition of the store's state
accountState ==
  [initialized |-> FALSE,
   currentAccount |-> NoAccount,
   currentAccountAddress |-> Null,
   currentAccountMultisigInfo |-> NoMultisigInfo,
   isCosignatoryMode |-> FALSE,
   signers |-> <<>>,
   currentSigner |-> NoSigner,
   currentSignerAddress |-> Null,
   currentSignerMultisigInfo |-> NoMultisigInfo,
   knownAccounts |-> <<>>,
   knownAddresses |-> <<>>,
   accountsInfo |-> <<>>,
   multisigAccountsInfo |-> <<>>]

NoSessionOp == [op |-> "none", arg |-> "", outcome |-> "none", steps |-> <<>>]

\* the asynchronous session actions that may be in flight together
Tasks == {"first", "second"}
NoTask == ""
\* what LOAD_ACCOUNT_INFO reads from the getters when it starts, and the
\* knownAddresses it computes
NoLoad ==
  [currentAccount |-> NoAccount, currentSignerAddress |-> Null,
   currentAccountAddress |-> Null, knownAccounts |-> <<>>, knownAddresses |-> <<>>]
\* a task: the action, its await (pc), its arguments and locals, and how it
\* ended; quiet, overlapped, follows, setup and late record how it met other
\* tasks
IdleTask ==
  [op |-> "none", pc |-> "idle", arg |-> "", outcome |-> "none",
   currentSignerAddress |-> Null, load |-> NoLoad, quiet |-> FALSE,
   overlapped |-> FALSE, follows |-> FALSE, setup |-> FALSE, late |-> FALSE]

(***************************************************************************)
(* Accounts repository: the data                                           *)
(***************************************************************************)
\* the account names used as identifiers
AccountNames == {"alice", "bob"}
PasswordHints == {"x", "y"}
\* the primary key of AccountsModel and another field
PrimaryKey == "accountName"
Fields == {PrimaryKey, "hint"}
\* Map<string, any>: the values given to create and update, each field present
\* or not
ValueMaps ==
  UNION {[S -> AccountNames \cup PasswordHints] : S \in SUBSET Fields}
Values ==
  {v \in ValueMaps :
     /\ PrimaryKey \in DOMAIN v => v[PrimaryKey] \in AccountNames
     /\ "hint" \in DOMAIN v => v["hint"] \in PasswordHints}

\* AccountsModel.hasIdentifier: the values hold the primary key
HasIdentifier(values) == PrimaryKey \in DOMAIN values
\* AccountsModel.getIdentifier
GetIdentifier(values) == values[PrimaryKey]

\* find(identifier): this._collection.has(identifier)
Find(coll, identifier) == identifier \in DOMAIN coll
\* Map.prototype.set and Map.prototype.delete on the collection
MapSet(coll, identifier, model) ==
  [i \in DOMAIN coll \cup {identifier} |-> IF i = identifier THEN model ELSE coll[i]]
MapDelete(coll, identifier) == [i \in DOMAIN coll \ {identifier} |-> coll[i]]

\* what an operation leaves: the collection, whether it returned or threw,
\* whether it called persist(), and the identifier it was about
Left(coll, outcome, persisted, identifier) ==
  [collection |-> coll, outcome |-> outcome, persisted |-> persisted,
   identifier |-> identifier]

NoRepoOp == [op |-> "none", identifier |-> "", outcome |-> "none", persisted |-> FALSE]

InitRepository ==
  /\ collection = <<>>
  /\ storage = <<>>
  /\ repoOp = NoRepoOp
  /\ created = {}

stageVars == <<signedTransactions, call>>
subsVars == <<subscriptions, opened, closeLog, closeFailures, lastOp>>
sessionVars == <<state, chain, sessionOp, trail, tasks, lock>>
repoVars == <<collection, storage, repoOp, created>>
nonStageVars == <<subsVars, sessionVars, repoVars>>
vars == <<stageVars, subsVars, sessionVars, repoVars>>

Init ==
  /\ signedTransactions = <<>>
  /\ call = IdleCall
  /\ subscriptions = <<>>
  /\ opened = <<>>
  /\ closeLog = <<>>
  /\ closeFailures = 0
  /\ lastOp = NoOp
  /\ state = accountState
  /\ chain = {}
  /\ sessionOp = NoSessionOp
  /\ trail = <<>>
  /\ tasks = [t \in Tasks |-> IdleTask]
  /\ lock = NoTask
  /\ InitRepository

(***************************************************************************)
(* Direct commits                                                          *)
(***************************************************************************)
addSignedTransaction(transaction) ==
  /\ Len(signedTransactions) < MaxSigned
  /\ signedTransactions' = AddSigned(signedTransactions, transaction)
  /\ UNCHANGED <<call, nonStageVars>>

removeSignedTransaction(transaction) ==
  /\ signedTransactions' = RemoveSigned(signedTransactions, transaction)
  /\ UNCHANGED <<call, nonStageVars>>

(***************************************************************************)
(* REST_ANNOUNCE_PARTIAL                                                   *)
(***************************************************************************)
\* the tap of the pipeline: both removals, once per value that reaches it
TapRemove(signed, signedLock, signedPartial) ==
  RemoveSigned(RemoveSigned(signed, signedLock), signedPartial)

\* dispatch: the issuer guard, then the pipeline is subscribed
REST_ANNOUNCE_PARTIAL(issuer, signedLock, signedPartial) ==
  /\ call.pc = "idle"
  /\ call' = IF issuer = 0 \/ issuer # IssuerLength
             THEN [IdleCall EXCEPT !.op = "REST_ANNOUNCE_PARTIAL", !.pc = "done",
                                   !.issuer = issuer, !.signedLock = signedLock,
                                   !.subject = signedPartial, !.result = Undefined,
                                   !.settledBy = "guard"]
             ELSE [IdleCall EXCEPT !.op = "REST_ANNOUNCE_PARTIAL", !.pc = "awaiting",
                                   !.issuer = issuer, !.signedLock = signedLock,
                                   !.subject = signedPartial]
  /\ UNCHANGED <<signedTransactions, nonStageVars>>

\* a notification n leaves the pipeline: tap, then the promise settles
PartialSettle(n, by) ==
  /\ signedTransactions' =
       IF n.kind = "next"
       THEN TapRemove(signedTransactions, call.signedLock, call.subject)
       ELSE signedTransactions
  /\ call' = [call EXCEPT !.pc = "done", !.result = ToPromise(n), !.settledBy = by,
                          !.removals = IF n.kind = "next" THEN @ + 1 ELSE @,
                          !.lockWasSigned = CountHash(signedTransactions, call.signedLock.hash) > 0,
                          !.subjectWasSigned = CountHash(signedTransactions, call.subject.hash) > 0]
  /\ UNCHANGED nonStageVars

\* announceHashLockAggregateBonded emits the confirmed aggregate
PartialConfirmed ==
  /\ call.op = "REST_ANNOUNCE_PARTIAL" /\ call.pc = "awaiting"
  /\ PartialSettle(MapTo(CatchError(NextN(call.subject), call.subject), call.subject),
                   "confirmed")

\* announceHashLockAggregateBonded raises e
PartialError(e) ==
  /\ call.op = "REST_ANNOUNCE_PARTIAL" /\ call.pc = "awaiting"
  /\ PartialSettle(MapTo(CatchError(ErrorN(e), call.subject), call.subject), "error")

\* mutant: the tap placed before timeoutWith, so the replacement value of the
\* timeout never reaches it
PartialTimeout_TapBeforeTimeoutWith ==
  /\ call.op = "REST_ANNOUNCE_PARTIAL" /\ call.pc = "awaiting"
  /\ call' = [call EXCEPT !.pc = "done", !.settledBy = "timeout",
                          !.result = ToPromise(TimeoutWith(call.subject))]
  /\ UNCHANGED <<signedTransactions, nonStageVars>>

\* AGGREGATE_BROADCAST_TIMEOUT elapses first: timeoutWith drops the source
PartialTimeout ==
  /\ call.op = "REST_ANNOUNCE_PARTIAL" /\ call.pc = "awaiting"
  /\ PartialSettle(TimeoutWith(call.subject), "timeout")

\* the loser of the race: the source was unsubscribed (or the timer cleared),
\* so a later confirmation, error or expiry reaches nothing
PartialLateEvent(ev) ==
  /\ call.op = "REST_ANNOUNCE_PARTIAL" /\ call.pc = "done"
  /\ call.late = "none"
  /\ \/ call.settledBy = "timeout" /\ ev \in {"confirmed", "error"}
     \/ call.settledBy \in {"confirmed", "error"} /\ ev = "timeout"
  /\ call' = [call EXCEPT !.late = ev]
  /\ UNCHANGED <<signedTransactions, nonStageVars>>

(***************************************************************************)
(* REST_ANNOUNCE_TRANSACTION                                               *)
(***************************************************************************)
REST_ANNOUNCE_TRANSACTION(signedTransaction) ==
  /\ call.pc = "idle"
  /\ call' = [IdleCall EXCEPT !.op = "REST_ANNOUNCE_TRANSACTION", !.pc = "awaiting",
                              !.subject = signedTransaction, !.announces = 1]
  /\ UNCHANGED <<signedTransactions, nonStageVars>>

\* transactionHttp.announce resolved
AnnounceTransactionOk ==
  /\ call.op = "REST_ANNOUNCE_TRANSACTION" /\ call.pc = "awaiting"
  /\ signedTransactions' = RemoveSigned(signedTransactions, call.subject)
  /\ call' = [call EXCEPT !.pc = "done", !.removals = @ + 1, !.settledBy = "ok",
                          !.subjectWasSigned = CountHash(signedTransactions, call.subject.hash) > 0,
                          !.result = BroadcastResult(call.subject, TRUE, "")]
  /\ UNCHANGED nonStageVars

\* mutant: a catch block that leaves the transaction signed
AnnounceTransactionFail_KeepsSigned(e) ==
  /\ call.op = "REST_ANNOUNCE_TRANSACTION" /\ call.pc = "awaiting"
  /\ call' = [call EXCEPT !.pc = "done", !.settledBy = "error",
                          !.result = BroadcastResult(call.subject, FALSE, ErrorToString(e))]
  /\ UNCHANGED <<signedTransactions, nonStageVars>>

\* transactionHttp.announce rejected with e: the catch block
AnnounceTransactionFail(e) ==
  /\ call.op = "REST_ANNOUNCE_TRANSACTION" /\ call.pc = "awaiting"
  /\ signedTransactions' = RemoveSigned(signedTransactions, call.subject)
  /\ call' = [call EXCEPT !.pc = "done", !.removals = @ + 1, !.settledBy = "error",
                          !.subjectWasSigned = CountHash(signedTransactions, call.subject.hash) > 0,
                          !.result = BroadcastResult(call.subject, FALSE, ErrorToString(e))]
  /\ UNCHANGED nonStageVars

(***************************************************************************)
(* REST_ANNOUNCE_COSIGNATURE                                               *)
(***************************************************************************)
REST_ANNOUNCE_COSIGNATURE(cosignature) ==
  /\ call.pc = "idle"
  /\ call' = [IdleCall EXCEPT !.op = "REST_ANNOUNCE_COSIGNATURE", !.pc = "awaiting",
                              !.subject = cosignature, !.announces = 1]
  /\ UNCHANGED <<signedTransactions, nonStageVars>>

AnnounceCosignatureOk ==
  /\ call.op = "REST_ANNOUNCE_COSIGNATURE" /\ call.pc = "awaiting"
  /\ call' = [call EXCEPT !.pc = "done", !.settledBy = "ok",
                          !.result = BroadcastResult(call.subject, TRUE, "")]
  /\ UNCHANGED <<signedTransactions, nonStageVars>>

AnnounceCosignatureFail(e) ==
  /\ call.op = "REST_ANNOUNCE_COSIGNATURE" /\ call.pc = "awaiting"
  /\ call' = [call EXCEPT !.pc = "done", !.settledBy = "error",
                          !.result = BroadcastResult(call.subject, FALSE, ErrorToString(e))]
  /\ UNCHANGED <<signedTransactions, nonStageVars>>

\* the caller takes the result; the next announce may be dispatched
CallReturns ==
  /\ call.pc = "done"
  /\ call' = IdleCall
  /\ UNCHANGED <<signedTransactions, nonStageVars>>

Next ==
  \/ \E t \in SignedTransaction : addSignedTransaction(t)
  \/ \E t \in SignedTransaction : removeSignedTransaction(t)
  \/ \E i \in Issuers, l, p \in SignedTransaction : REST_ANNOUNCE_PARTIAL(i, l, p)
  \/ PartialConfirmed
  \/ \E e \in NetworkErrors : PartialError(e)
  \/ PartialTimeout
  \/ \E ev \in {"confirmed", "error", "timeout"} : PartialLateEvent(ev)
  \/ \E t \in SignedTransaction : REST_ANNOUNCE_TRANSACTION(t)
  \/ AnnounceTransactionOk
  \/ \E e \in NetworkErrors : AnnounceTransactionFail(e)
  \/ \E t \in SignedTransaction : REST_ANNOUNCE_COSIGNATURE(t)
  \/ AnnounceCosignatureOk
  \/ \E e \in NetworkErrors : AnnounceCosignatureFail(e)
  \/ CallReturns

Spec == Init /\ [][Next]_vars

(***************************************************************************)
(* Websocket API: SUBSCRIBE and UNSUBSCRIBE                                *)
(***************************************************************************)
\* SUBSCRIBE(address) on a registry: nothing for a missing address; else the
\* channels are opened and the handle set registered
Subscribed(subs, opn, address) ==
  IF address = Null
  THEN [subscriptions |-> subs, opened |-> opn]
  ELSE LET plainAddress == Plain(address)
           subscriptionType == SubscribeTransactionChannels(Len(opn) + 1)
       IN  [subscriptions |-> UpdateSubscriptions(subs, plainAddress, <<subscriptionType>>),
            opened |-> Append(opn, [address |-> plainAddress, handles |-> subscriptionType])]

\* UNSUBSCRIBE(plainAddress) on a registry: failAt = 0 when no close call
\* throws, else the position, in the order of the loops, of the close call
\* that throws and ends the action
Unsubscribed(subs, clog, plainAddress, failAt) ==
  LET subscriptionTypes == SubscriptionsOf(subs, plainAddress)
      order == CloseOrder(subscriptionTypes)
  IN  IF Len(subscriptionTypes) = 0
      THEN [subscriptions |-> subs, closeLog |-> clog, outcome |-> "returned"]
      ELSE IF failAt = 0
      THEN [subscriptions |-> UpdateSubscriptions(subs, plainAddress, <<>>),
            closeLog |-> clog \o order, outcome |-> "returned"]
      ELSE [subscriptions |-> subs, closeLog |-> clog \o SubSeq(order, 1, failAt),
            outcome |-> "thrown"]

SUBSCRIBE(address) ==
  /\ Len(opened) < MaxOpened
  /\ LET r == Subscribed(subscriptions, opened, address)
     IN  /\ subscriptions' = r.subscriptions
         /\ opened' = r.opened
  /\ lastOp' = [op |-> "SUBSCRIBE",
                address |-> IF address = Null THEN "" ELSE Plain(address),
                outcome |-> "returned", failAt |-> 0]
  /\ UNCHANGED <<closeLog, closeFailures, stageVars, sessionVars, repoVars>>

UNSUBSCRIBE(plainAddress, failAt) ==
  /\ failAt \in 0..Len(CloseOrder(SubscriptionsOf(subscriptions, plainAddress)))
  /\ failAt # 0 => closeFailures < MaxCloseFailures
  /\ LET r == Unsubscribed(subscriptions, closeLog, plainAddress, failAt)
     IN  /\ subscriptions' = r.subscriptions
         /\ closeLog' = r.closeLog
         /\ lastOp' = [op |-> "UNSUBSCRIBE", address |-> plainAddress,
                       outcome |-> r.outcome, failAt |-> failAt]
  /\ closeFailures' = IF failAt = 0 THEN closeFailures ELSE closeFailures + 1
  /\ UNCHANGED <<opened, stageVars, sessionVars, repoVars>>

\* the addresses the websocket actions are dispatched with
SubscribedAddresses == {"TA", "TB"}

NextSubs ==
  \/ \E a \in {CreateFromRawAddress(p) : p \in SubscribedAddresses} \cup {Null} :
       SUBSCRIBE(a)
  \/ \E p \in SubscribedAddresses, f \in 0..(MaxOpened * (NumStreams + 1)) : UNSUBSCRIBE(p, f)

SpecSubs == Init /\ [][NextSubs]_vars

(***************************************************************************)
(* Session: current account and current signer                             *)
(***************************************************************************)
\* mutant: the reload appends the signers it resolves to state.signers
LoadAccountInfo_AppendsSigners(st, ch, msFails, aiFails) ==
  LET signers == st.signers
                   \o GetSigners(st.knownAccounts, st.currentAccount,
                                 FindMultisigInfo(
                                   GetMultisigAccountsInfo(ch, st.currentAccountAddress, msFails),
                                   st.currentAccountAddress))
  IN  [state |-> [st EXCEPT !.signers = signers],
       outcome |-> IF aiFails THEN "thrown" ELSE "returned"]

\* LOAD_ACCOUNT_INFO on the fields st: msFails, the multisig graph request
\* fails; aiFails, the accounts info request fails (after the first commits)
LoadAccountInfo(st, ch, msFails, aiFails) ==
  LET multisigAccountsInfo ==
        GetMultisigAccountsInfo(ch, st.currentAccountAddress, msFails)
      currentAccountMultisigInfo ==
        FindMultisigInfo(multisigAccountsInfo, st.currentAccountAddress)
      currentSignerMultisigInfo ==
        FindMultisigInfo(multisigAccountsInfo, st.currentSignerAddress)
      signers == GetSigners(st.knownAccounts, st.currentAccount, currentAccountMultisigInfo)
      knownAddresses ==
        UniqByAddress([i \in 1..Len(signers) |-> signers[i].address]
                        \o [i \in 1..Len(st.knownAccounts) |->
                              CreateFromRawAddress(st.knownAccounts[i].address)])
      st1 == [st EXCEPT !.knownAddresses = knownAddresses,
                        !.currentSigner = FindSigner(signers, st.currentSignerAddress),
                        !.signers = signers,
                        !.multisigAccountsInfo = multisigAccountsInfo,
                        !.currentAccountMultisigInfo = currentAccountMultisigInfo,
                        !.currentSignerMultisigInfo = currentSignerMultisigInfo]
  IN  IF aiFails
      THEN [state |-> st1, outcome |-> "thrown"]
      ELSE [state |-> [st1 EXCEPT !.accountsInfo = knownAddresses], outcome |-> "returned"]

\* the store as an action sees and leaves it
World(st, subs, opn, clog, outcome, steps) ==
  [state |-> st, subscriptions |-> subs, opened |-> opn, closeLog |-> clog,
   outcome |-> outcome, steps |-> steps]

\* mutant: the new signer is subscribed before the previous one is
\* unsubscribed
SetCurrentSigner_SubscribesFirst(w, ch, publicKey, msFails, aiFails) ==
  LET st == w.state
      previousSignerAddress == st.currentSignerAddress
      currentSignerAddress == CreateFromPublicKey(publicKey)
  IN  IF publicKey = ""
      THEN [w EXCEPT !.outcome = "thrown"]
      ELSE IF previousSignerAddress # Null /\ previousSignerAddress = currentSignerAddress
      THEN [w EXCEPT !.outcome = "returned"]
      ELSE IF st.currentAccount = NoAccount
      THEN [w EXCEPT !.outcome = "thrown",
                     !.steps = @ \o <<"transaction/RESET_TRANSACTIONS">>]
      ELSE
        LET currentAccountAddress == CreateFromRawAddress(st.currentAccount.address)
            st1 == [st EXCEPT !.currentSignerAddress = currentSignerAddress,
                              !.currentAccountAddress = currentAccountAddress,
                              !.isCosignatoryMode =
                                 ~(currentSignerAddress = currentAccountAddress),
                              !.knownAccounts = GetKnownAccounts(ProfileAccounts)]
            sub == Subscribed(w.subscriptions, w.opened, currentSignerAddress)
            un == IF previousSignerAddress # Null
                  THEN Unsubscribed(sub.subscriptions, w.closeLog,
                                    Plain(previousSignerAddress), 0)
                  ELSE [subscriptions |-> sub.subscriptions, closeLog |-> w.closeLog,
                        outcome |-> "returned"]
            load == LoadAccountInfo(st1, ch, msFails, aiFails)
            steps == <<"transaction/RESET_TRANSACTIONS", "commit",
                       "namespace/SIGNER_CHANGED", "mosaic/SIGNER_CHANGED",
                       "transaction/SIGNER_CHANGED", "SUBSCRIBE">>
                     \o (IF previousSignerAddress # Null THEN <<"UNSUBSCRIBE">> ELSE <<>>)
                     \o <<"LOAD_ACCOUNT_INFO">>
                     \o (IF load.outcome = "returned"
                         THEN <<"namespace/LOAD_NAMESPACES", "mosaic/LOAD_MOSAICS">>
                         ELSE <<>>)
        IN  World(load.state, un.subscriptions, sub.opened, un.closeLog,
                  load.outcome, w.steps \o steps)

\* mutant: SET_CURRENT_SIGNER without the comparison with the previous signer
SetCurrentSigner_NoGuard(w, ch, publicKey, msFails, aiFails) ==
  LET st == w.state
      previousSignerAddress == st.currentSignerAddress
      currentSignerAddress == CreateFromPublicKey(publicKey)
  IN  IF publicKey = ""
      THEN [w EXCEPT !.outcome = "thrown"]
      ELSE IF st.currentAccount = NoAccount
      \* currentAccount.address of a null account: a TypeError
      THEN [w EXCEPT !.outcome = "thrown",
                     !.steps = @ \o <<"transaction/RESET_TRANSACTIONS">>]
      ELSE
        LET currentAccountAddress == CreateFromRawAddress(st.currentAccount.address)
            st1 == [st EXCEPT !.currentSignerAddress = currentSignerAddress,
                              !.currentAccountAddress = currentAccountAddress,
                              !.isCosignatoryMode =
                                 ~(currentSignerAddress = currentAccountAddress),
                              !.knownAccounts = GetKnownAccounts(ProfileAccounts)]
            un == IF previousSignerAddress # Null
                  THEN Unsubscribed(w.subscriptions, w.closeLog,
                                    Plain(previousSignerAddress), 0)
                  ELSE [subscriptions |-> w.subscriptions, closeLog |-> w.closeLog,
                        outcome |-> "returned"]
            sub == Subscribed(un.subscriptions, w.opened, currentSignerAddress)
            load == LoadAccountInfo(st1, ch, msFails, aiFails)
            steps == <<"transaction/RESET_TRANSACTIONS", "commit",
                       "namespace/SIGNER_CHANGED", "mosaic/SIGNER_CHANGED",
                       "transaction/SIGNER_CHANGED">>
                     \o (IF previousSignerAddress # Null THEN <<"UNSUBSCRIBE">> ELSE <<>>)
                     \o <<"SUBSCRIBE", "LOAD_ACCOUNT_INFO">>
                     \o (IF load.outcome = "returned"
                         THEN <<"namespace/LOAD_NAMESPACES", "mosaic/LOAD_MOSAICS">>
                         ELSE <<>>)
        IN  World(load.state, sub.subscriptions, sub.opened, un.closeLog,
                  load.outcome, w.steps \o steps)

\* SET_CURRENT_SIGNER({publicKey}) on the world w; msFails and aiFails are
\* what the network answers
SetCurrentSigner(w, ch, publicKey, msFails, aiFails) ==
  LET st == w.state
      previousSignerAddress == st.currentSignerAddress
      currentSignerAddress == CreateFromPublicKey(publicKey)
  IN  IF publicKey = ""
      THEN [w EXCEPT !.outcome = "thrown"]
      ELSE IF previousSignerAddress # Null /\ previousSignerAddress = currentSignerAddress
      THEN [w EXCEPT !.outcome = "returned"]
      ELSE IF st.currentAccount = NoAccount
      \* currentAccount.address of a null account: a TypeError
      THEN [w EXCEPT !.outcome = "thrown",
                     !.steps = @ \o <<"transaction/RESET_TRANSACTIONS">>]
      ELSE
        LET currentAccountAddress == CreateFromRawAddress(st.currentAccount.address)
            st1 == [st EXCEPT !.currentSignerAddress = currentSignerAddress,
                              !.currentAccountAddress = currentAccountAddress,
                              !.isCosignatoryMode =
                                 ~(currentSignerAddress = currentAccountAddress),
                              !.knownAccounts = GetKnownAccounts(ProfileAccounts)]
            un == IF previousSignerAddress # Null
                  THEN Unsubscribed(w.subscriptions, w.closeLog,
                                    Plain(previousSignerAddress), 0)
                  ELSE [subscriptions |-> w.subscriptions, closeLog |-> w.closeLog,
                        outcome |-> "returned"]
            sub == Subscribed(un.subscriptions, w.opened, currentSignerAddress)
            load == LoadAccountInfo(st1, ch, msFails, aiFails)
            steps == <<"transaction/RESET_TRANSACTIONS", "commit",
                       "namespace/SIGNER_CHANGED", "mosaic/SIGNER_CHANGED",
                       "transaction/SIGNER_CHANGED">>
                     \o (IF previousSignerAddress # Null THEN <<"UNSUBSCRIBE">> ELSE <<>>)
                     \o <<"SUBSCRIBE", "LOAD_ACCOUNT_INFO">>
                     \o (IF load.outcome = "returned"
                         THEN <<"namespace/LOAD_NAMESPACES", "mosaic/LOAD_MOSAICS">>
                         ELSE <<>>)
        IN  World(load.state, sub.subscriptions, sub.opened, un.closeLog,
                  load.outcome, w.steps \o steps)

\* action initialize({address}) under the lock
Initialize(w, address) ==
  IF address = "" THEN w
  ELSE [w EXCEPT !.state.initialized = TRUE, !.steps = @ \o <<"setInitialized">>]

\* mutant: SET_CURRENT_ACCOUNT without the comparison with the previous account
SetCurrentAccount_NoGuard(w, ch, currentAccount, msFails, aiFails) ==
  LET w1 == [w EXCEPT !.state.currentAccount = currentAccount,
                      !.steps = @ \o <<"commit currentAccount">>]
      w2 == SetCurrentSigner(w1, ch, currentAccount.publicKey, msFails, aiFails)
  IN  IF w2.outcome = "thrown" THEN w2
      ELSE [Initialize(w2, currentAccount.address)
              EXCEPT !.steps = @ \o <<"onAccountChange">>]

\* SET_CURRENT_ACCOUNT(currentAccount) on the world w
SetCurrentAccount(w, ch, currentAccount, msFails, aiFails) ==
  LET previous == w.state.currentAccount
  IN  IF previous # NoAccount /\ previous.address = currentAccount.address
      THEN [w EXCEPT !.outcome = "returned"]
      ELSE
        LET w1 == [w EXCEPT !.state.currentAccount = currentAccount,
                            !.steps = @ \o <<"commit currentAccount">>]
            w2 == SetCurrentSigner(w1, ch, currentAccount.publicKey, msFails, aiFails)
        IN  IF w2.outcome = "thrown" THEN w2
            ELSE [Initialize(w2, currentAccount.address)
                    EXCEPT !.steps = @ \o <<"onAccountChange">>]

\* RESET_CURRENT_ACCOUNT on the world w
ResetCurrentAccount(w) ==
  [w EXCEPT !.state.currentAccount = NoAccount,
            !.state.currentAccountAddress = Null,
            !.state.currentSignerAddress = Null,
            !.outcome = "returned"]

\* mutant: uninitialize closes the handles and leaves them registered
Uninitialize_KeepsRegistered(w, address) ==
  [w EXCEPT !.closeLog = @ \o CloseOrder(SubscriptionsOf(w.subscriptions, address)),
            !.state.initialized = FALSE,
            !.outcome = "returned",
            !.steps = @ \o <<"UNSUBSCRIBE", "transaction/RESET_TRANSACTIONS",
                             "setInitialized">>]

\* action uninitialize({address}) under the lock
Uninitialize(w, address) ==
  LET un == Unsubscribed(w.subscriptions, w.closeLog, address, 0)
  IN  [w EXCEPT !.subscriptions = un.subscriptions,
                !.closeLog = un.closeLog,
                !.state.initialized = FALSE,
                !.outcome = "returned",
                !.steps = @ \o <<"UNSUBSCRIBE", "transaction/RESET_TRANSACTIONS",
                                 "setInitialized">>]

CurrentWorld == World(state, subscriptions, opened, closeLog, "none", <<>>)

\* the world w an action leaves becomes the next state
Becomes(w, op, arg) ==
  /\ state' = w.state
  /\ subscriptions' = w.subscriptions
  /\ opened' = w.opened
  /\ closeLog' = w.closeLog
  /\ sessionOp' = [op |-> op, arg |-> arg, outcome |-> w.outcome, steps |-> w.steps]
  /\ UNCHANGED <<chain, closeFailures, lastOp, stageVars, tasks, lock, repoVars>>

\* the signer transitions completed one after another with nothing between
\* them, the last three of them: the public key asked for, the answer of the
\* multisig request, and the signer fields the transition left
Transition(publicKey, msFails, st) ==
  [publicKey |-> publicKey, msFails |-> msFails,
   currentSignerAddress |-> st.currentSignerAddress,
   isCosignatoryMode |-> st.isCosignatoryMode, signers |-> st.signers]
Trailed(tr, transition) ==
  LET all == Append(tr, transition)
  IN  SubSeq(all, Max(1, Len(all) - 2), Len(all))
Reloaded(w) == \E i \in 1..Len(w.steps) : w.steps[i] = "LOAD_ACCOUNT_INFO"

SET_CURRENT_ACCOUNT(id, msFails, aiFails) ==
  /\ Len(opened) < MaxOpened
  /\ LET w == SetCurrentAccount(CurrentWorld, chain, AccountModel(id), msFails, aiFails)
     IN  /\ Becomes(w, "SET_CURRENT_ACCOUNT", id)
         /\ trail' = IF w.state = state THEN trail
                     ELSE IF w.outcome = "returned" /\ Reloaded(w)
                     THEN <<Transition(AccountModel(id).publicKey, msFails, w.state)>>
                     ELSE <<>>

\* mutant: the transaction reset dispatched before the public key is checked
SET_CURRENT_SIGNER_ResetsFirst(publicKey, msFails, aiFails) ==
  /\ Len(opened) < MaxOpened
  /\ LET w == SetCurrentSigner(
                [CurrentWorld EXCEPT !.steps = <<"transaction/RESET_TRANSACTIONS">>],
                chain, publicKey, msFails, aiFails)
     IN  /\ Becomes(w, "SET_CURRENT_SIGNER", publicKey)
         /\ trail' = <<>>

SET_CURRENT_SIGNER(publicKey, msFails, aiFails) ==
  /\ Len(opened) < MaxOpened
  /\ LET w == SetCurrentSigner(CurrentWorld, chain, publicKey, msFails, aiFails)
     IN  /\ Becomes(w, "SET_CURRENT_SIGNER", publicKey)
         /\ trail' = IF w.state = state THEN trail
                     ELSE IF w.outcome = "returned" /\ Reloaded(w)
                     THEN Trailed(trail, Transition(publicKey, msFails, w.state))
                     ELSE <<>>

RESET_CURRENT_ACCOUNT ==
  /\ Becomes(ResetCurrentAccount(CurrentWorld), "RESET_CURRENT_ACCOUNT", "")
  /\ trail' = <<>>

uninitialize(address) ==
  /\ Becomes(Uninitialize(CurrentWorld, address), "uninitialize", address)
  /\ trail' = <<>>

InitSession ==
  /\ signedTransactions = <<>>
  /\ call = IdleCall
  /\ subscriptions = <<>>
  /\ opened = <<>>
  /\ closeLog = <<>>
  /\ closeFailures = 0
  /\ lastOp = NoOp
  /\ state = accountState
  /\ chain \in Chains
  /\ sessionOp = NoSessionOp
  /\ trail = <<>>
  /\ tasks = [t \in Tasks |-> IdleTask]
  /\ lock = NoTask
  /\ InitRepository

NextSession ==
  \/ \E id \in {"A", "B"}, msFails, aiFails \in BOOLEAN :
       SET_CURRENT_ACCOUNT(id, msFails, aiFails)
  \/ \E publicKey \in PublicKeys \cup {""}, msFails, aiFails \in BOOLEAN :
       SET_CURRENT_SIGNER(publicKey, msFails, aiFails)
  \/ RESET_CURRENT_ACCOUNT
  \/ \E address \in PlainAddresses : uninitialize(address)

SpecSession == InitSession /\ [][NextSession]_vars

(***************************************************************************)
(* Known accounts                                                          *)
(***************************************************************************)
\* the identifier lists SET_KNOWN_ACCOUNTS is dispatched with
AccountLists == {<<>>, <<"A">>, <<"B">>, <<"A", "B">>}
\* the names an account is renamed to
NewNames == {"renamed"}

\* SET_KNOWN_ACCOUNTS(accounts): one commit
SET_KNOWN_ACCOUNTS(accounts) ==
  /\ state' = [state EXCEPT !.knownAccounts = GetKnownAccounts(accounts)]
  /\ sessionOp' = [op |-> "SET_KNOWN_ACCOUNTS", arg |-> "", outcome |-> "returned",
                   steps |-> <<"commit knownAccounts">>]
  /\ trail' = <<>>
  /\ UNCHANGED <<chain, tasks, lock, subsVars, stageVars, repoVars>>

\* UPDATE_CURRENT_ACCOUNT_NAME(name): nothing without a current account; else
\* the account service stores the name and the accounts of the profile are
\* committed as the known accounts, the current one under its new name
UPDATE_CURRENT_ACCOUNT_NAME(name) ==
  /\ LET currentAccount == state.currentAccount
         accounts == GetKnownAccounts(ProfileAccounts)
         knownAccounts == [i \in 1..Len(accounts) |->
                             IF accounts[i].id = currentAccount.id
                             THEN [accounts[i] EXCEPT !.name = name] ELSE accounts[i]]
     IN  IF currentAccount = NoAccount
         THEN /\ state' = state
              /\ sessionOp' = [op |-> "UPDATE_CURRENT_ACCOUNT_NAME", arg |-> name,
                               outcome |-> "returned", steps |-> <<>>]
         ELSE /\ state' = [state EXCEPT !.knownAccounts = knownAccounts]
              /\ sessionOp' = [op |-> "UPDATE_CURRENT_ACCOUNT_NAME", arg |-> name,
                               outcome |-> "returned",
                               steps |-> <<"commit knownAccounts">>]
  /\ trail' = <<>>
  /\ UNCHANGED <<chain, tasks, lock, subsVars, stageVars, repoVars>>

NextStore ==
  \/ \E id \in {"A", "B"}, msFails, aiFails \in BOOLEAN :
       SET_CURRENT_ACCOUNT(id, msFails, aiFails)
  \/ \E publicKey \in PublicKeys \cup {""}, msFails, aiFails \in BOOLEAN :
       SET_CURRENT_SIGNER(publicKey, msFails, aiFails)
  \/ RESET_CURRENT_ACCOUNT
  \/ \E address \in PlainAddresses : uninitialize(address)
  \/ \E accounts \in AccountLists : SET_KNOWN_ACCOUNTS(accounts)
  \/ \E name \in NewNames : UPDATE_CURRENT_ACCOUNT_NAME(name)

SpecStore == InitSession /\ [][NextStore]_vars

(***************************************************************************)
(* Session actions as tasks: each action runs from one await to the next   *)
(* in one step, and the tasks in flight interleave at their awaits         *)
(***************************************************************************)
InFlight(t) == tasks[t].pc \notin {"idle", "done"}
\* a task may be dispatched when its slot is free and the handle sets still
\* to be opened, its own with them, stay within MaxOpened
MayDispatch(t) ==
  /\ ~InFlight(t)
  /\ Len(opened) + Cardinality({u \in Tasks : tasks[u].pc = "subscribing"}) < MaxOpened

taskFrame == <<stageVars, closeFailures, lastOp, chain, sessionOp, trail, repoVars>>

\* SET_CURRENT_SIGNER({publicKey}) from its dispatch to its first await on the
\* network: the guards, the reset, the commits, the SIGNER_CHANGED dispatches,
\* the body of UNSUBSCRIBE(previous), which has no await of its own, and
\* SUBSCRIBE up to subscribeTransactionChannels; between the last two the task
\* reads and writes nothing of the store
SignerBegins(st, subs, clog, publicKey) ==
  LET previousSignerAddress == st.currentSignerAddress
      currentSignerAddress == CreateFromPublicKey(publicKey)
      ends(outcome) == [state |-> st, subscriptions |-> subs, closeLog |-> clog,
                        pc |-> "done", outcome |-> outcome,
                        currentSignerAddress |-> Null]
  IN  IF publicKey = "" THEN ends("thrown")
      ELSE IF previousSignerAddress # Null /\ previousSignerAddress = currentSignerAddress
      THEN ends("returned")
      ELSE IF st.currentAccount = NoAccount THEN ends("thrown")
      ELSE
        LET currentAccountAddress == CreateFromRawAddress(st.currentAccount.address)
            st1 == [st EXCEPT !.currentSignerAddress = currentSignerAddress,
                              !.currentAccountAddress = currentAccountAddress,
                              !.isCosignatoryMode =
                                 ~(currentSignerAddress = currentAccountAddress),
                              !.knownAccounts = GetKnownAccounts(ProfileAccounts)]
        IN  IF previousSignerAddress # Null
            THEN LET un == Unsubscribed(subs, clog, Plain(previousSignerAddress), 0)
                 IN  [state |-> st1, subscriptions |-> un.subscriptions,
                      closeLog |-> un.closeLog, pc |-> "subscribing",
                      outcome |-> "none", currentSignerAddress |-> currentSignerAddress]
            ELSE [state |-> st1, subscriptions |-> subs, closeLog |-> clog,
                  pc |-> "subscribing", outcome |-> "none",
                  currentSignerAddress |-> currentSignerAddress]

\* no task is in flight and the registry holds one entry set, for the current
\* signer
Quiet ==
  /\ \A u \in Tasks : ~InFlight(u)
  /\ DOMAIN subscriptions = {Plain(state.currentSignerAddress)}
  /\ \A a \in DOMAIN subscriptions : Len(subscriptions[a]) = 1

\* the tasks t meets when it is dispatched
SignerInFlight(t) ==
  \E u \in Tasks \ {t} : tasks[u].op = "SET_CURRENT_SIGNER" /\ InFlight(u)
LogoutInFlight(t) ==
  \E u \in Tasks \ {t} : tasks[u].op = "uninitialize" /\ InFlight(u)

DispatchSetCurrentSigner(t, publicKey) ==
  /\ MayDispatch(t)
  /\ LET b == SignerBegins(state, subscriptions, closeLog, publicKey)
     IN  /\ state' = b.state
         /\ subscriptions' = b.subscriptions
         /\ closeLog' = b.closeLog
         /\ tasks' = [u \in Tasks |->
              IF u = t
              THEN [IdleTask EXCEPT !.op = "SET_CURRENT_SIGNER", !.arg = publicKey,
                                    !.pc = b.pc, !.outcome = b.outcome,
                                    !.currentSignerAddress = b.currentSignerAddress,
                                    !.quiet = Quiet,
                                    !.overlapped = SignerInFlight(t)]
              ELSE IF tasks[u].op = "SET_CURRENT_SIGNER" /\ InFlight(u)
              THEN [tasks[u] EXCEPT !.overlapped = TRUE,
                                    !.quiet = @ /\ ~tasks[u].overlapped]
              ELSE tasks[u]]
  /\ UNCHANGED <<opened, lock, taskFrame>>

\* SET_CURRENT_ACCOUNT(currentAccount) from its dispatch to its first await
DispatchSetCurrentAccount(t, id) ==
  /\ MayDispatch(t)
  /\ LET currentAccount == AccountModel(id)
         previous == state.currentAccount
         task == [IdleTask EXCEPT !.op = "SET_CURRENT_ACCOUNT", !.arg = id,
                                  !.follows = LogoutInFlight(t)]
     IN  IF previous # NoAccount /\ previous.address = currentAccount.address
         THEN /\ tasks' = [tasks EXCEPT ![t] =
                             [task EXCEPT !.pc = "done", !.outcome = "returned"]]
              /\ UNCHANGED <<state, subscriptions, closeLog>>
         ELSE LET b == SignerBegins([state EXCEPT !.currentAccount = currentAccount],
                                    subscriptions, closeLog, currentAccount.publicKey)
              IN  /\ state' = b.state
                  /\ subscriptions' = b.subscriptions
                  /\ closeLog' = b.closeLog
                  /\ tasks' = [tasks EXCEPT ![t] =
                       [task EXCEPT
                          !.pc = IF b.pc # "done" THEN b.pc
                                 ELSE IF b.outcome = "thrown" THEN "done" ELSE "acquire",
                          !.outcome = IF b.outcome = "thrown" THEN "thrown" ELSE "none",
                          !.currentSignerAddress = b.currentSignerAddress,
                          !.setup = TRUE]]
  /\ UNCHANGED <<opened, lock, taskFrame>>

\* subscribeTransactionChannels resolves: the handle set is registered
ChannelsOpened(t) ==
  /\ tasks[t].pc = "subscribing"
  /\ LET r == Subscribed(subscriptions, opened, tasks[t].currentSignerAddress)
     IN  /\ subscriptions' = r.subscriptions
         /\ opened' = r.opened
  /\ tasks' = [tasks EXCEPT ![t].pc = "subscribed",
                            ![t].setup = @ \/ tasks[t].op = "SET_CURRENT_ACCOUNT"]
  /\ UNCHANGED <<state, closeLog, lock, taskFrame>>

\* after `await dispatch('SUBSCRIBE', ...)`: LOAD_ACCOUNT_INFO is dispatched,
\* reads the getters and requests the multisig graph
LoadStarts(t) ==
  /\ tasks[t].pc = "subscribed"
  /\ tasks' = [tasks EXCEPT ![t].pc = "multisig",
                            ![t].load = [NoLoad EXCEPT
                               !.currentAccount = state.currentAccount,
                               !.currentSignerAddress = state.currentSignerAddress,
                               !.currentAccountAddress = state.currentAccountAddress,
                               !.knownAccounts = state.knownAccounts]]
  /\ UNCHANGED <<state, subscriptions, opened, closeLog, lock, taskFrame>>

\* the six commits LOAD_ACCOUNT_INFO makes once the multisig graph request is
\* answered, computed from what it read when it started
LoadCommits(st, load, ch, msFails) ==
  LET seen == [accountState EXCEPT !.currentAccount = load.currentAccount,
                                   !.currentSignerAddress = load.currentSignerAddress,
                                   !.currentAccountAddress = load.currentAccountAddress,
                                   !.knownAccounts = load.knownAccounts]
      r == LoadAccountInfo(seen, ch, msFails, TRUE).state
  IN  [st EXCEPT !.knownAddresses = r.knownAddresses,
                 !.currentSigner = r.currentSigner,
                 !.signers = r.signers,
                 !.multisigAccountsInfo = r.multisigAccountsInfo,
                 !.currentAccountMultisigInfo = r.currentAccountMultisigInfo,
                 !.currentSignerMultisigInfo = r.currentSignerMultisigInfo]

MultisigAnswered(t, msFails) ==
  /\ tasks[t].pc = "multisig"
  /\ state' = LoadCommits(state, tasks[t].load, chain, msFails)
  /\ tasks' = [tasks EXCEPT ![t].pc = "accountsInfo",
                            ![t].load.knownAddresses = state'.knownAddresses]
  /\ UNCHANGED <<subscriptions, opened, closeLog, lock, taskFrame>>

\* the accounts info request is answered: the last commit of LOAD_ACCOUNT_INFO,
\* after which SET_CURRENT_SIGNER dispatches the namespace and mosaic loads and
\* returns, and SET_CURRENT_ACCOUNT goes on to initialize, which waits for the
\* lock; or the rejection, which rejects the actions awaiting it
AccountsInfoAnswered(t, aiFails) ==
  /\ tasks[t].pc = "accountsInfo"
  /\ state' = IF aiFails THEN state
              ELSE [state EXCEPT !.accountsInfo = tasks[t].load.knownAddresses]
  /\ tasks' = [tasks EXCEPT
       ![t].pc = IF ~aiFails /\ tasks[t].op = "SET_CURRENT_ACCOUNT"
                 THEN "acquire" ELSE "done",
       ![t].outcome = IF aiFails THEN "thrown"
                      ELSE IF tasks[t].op = "SET_CURRENT_ACCOUNT" THEN @
                      ELSE "returned",
       ![t].load = NoLoad,
       ![t].currentSignerAddress = Null]
  /\ UNCHANGED <<subscriptions, opened, closeLog, lock, taskFrame>>

\* Lock.initialize: the lock is taken and the callback of initialize runs
InitializeRuns(t) ==
  /\ tasks[t].op = "SET_CURRENT_ACCOUNT" /\ tasks[t].pc = "acquire"
  /\ lock = NoTask
  /\ lock' = t
  /\ state' = IF AccountModel(tasks[t].arg).address = "" THEN state
              ELSE [state EXCEPT !.initialized = TRUE]
  /\ tasks' = [tasks EXCEPT ![t].pc = "initialized", ![t].setup = TRUE]
  /\ UNCHANGED <<subscriptions, opened, closeLog, taskFrame>>

\* the lock is released, onAccountChange is emitted, SET_CURRENT_ACCOUNT returns
AccountEnds(t) ==
  /\ tasks[t].pc = "initialized"
  /\ lock' = NoTask
  /\ tasks' = [tasks EXCEPT ![t].pc = "done", ![t].outcome = "returned"]
  /\ UNCHANGED <<state, subscriptions, opened, closeLog, taskFrame>>

\* a setup step of a session whose SET_CURRENT_ACCOUNT was dispatched while
\* the uninitialize t was in flight has run
SetupHasRun(t) ==
  \E u \in Tasks \ {t} :
    tasks[u].op = "SET_CURRENT_ACCOUNT" /\ tasks[u].follows /\ tasks[u].setup

\* a session is set up for the account at the address
LoggedIn(address) ==
  /\ state.initialized
  /\ state.currentAccount # NoAccount
  /\ state.currentAccount.address = address

\* uninitialize({address}) is dispatched and waits for the lock
DispatchUninitialize(t, address) ==
  /\ MayDispatch(t)
  /\ tasks' = [tasks EXCEPT ![t] =
                 [IdleTask EXCEPT !.op = "uninitialize", !.arg = address,
                                  !.pc = "acquire",
                                  !.quiet = Quiet /\ LoggedIn(address)]]
  /\ UNCHANGED <<state, subscriptions, opened, closeLog, lock, taskFrame>>

\* Lock.uninitialize: the lock is taken and the callback runs to its first
\* await, through the body of UNSUBSCRIBE(address)
UninitializeRuns(t) ==
  /\ tasks[t].op = "uninitialize" /\ tasks[t].pc = "acquire"
  /\ lock = NoTask
  /\ lock' = t
  /\ LET un == Unsubscribed(subscriptions, closeLog, tasks[t].arg, 0)
     IN  /\ subscriptions' = un.subscriptions
         /\ closeLog' = un.closeLog
  /\ tasks' = [tasks EXCEPT ![t].pc = "closed", ![t].late = @ \/ SetupHasRun(t)]
  /\ UNCHANGED <<state, opened, taskFrame>>

\* after `await dispatch('UNSUBSCRIBE', address)`: the transaction reset, then
\* the flag is cleared, the lock released, and uninitialize returns
UninitializeEnds(t) ==
  /\ tasks[t].pc = "closed"
  /\ state' = [state EXCEPT !.initialized = FALSE]
  /\ lock' = NoTask
  /\ tasks' = [tasks EXCEPT ![t].pc = "done", ![t].outcome = "returned",
                            ![t].late = @ \/ SetupHasRun(t)]
  /\ UNCHANGED <<subscriptions, opened, closeLog, taskFrame>>

NextTasks ==
  \/ \E t \in Tasks, publicKey \in PublicKeys \cup {""} :
       DispatchSetCurrentSigner(t, publicKey)
  \/ \E t \in Tasks, id \in {"A", "B"} : DispatchSetCurrentAccount(t, id)
  \/ \E t \in Tasks, address \in SubscribedAddresses : DispatchUninitialize(t, address)
  \/ \E t \in Tasks : ChannelsOpened(t)
  \/ \E t \in Tasks : LoadStarts(t)
  \/ \E t \in Tasks : MultisigAnswered(t, FALSE)
  \/ \E t \in Tasks, aiFails \in BOOLEAN : AccountsInfoAnswered(t, aiFails)
  \/ \E t \in Tasks : InitializeRuns(t)
  \/ \E t \in Tasks : AccountEnds(t)
  \/ \E t \in Tasks : UninitializeRuns(t)
  \/ \E t \in Tasks : UninitializeEnds(t)

\* the tasks run on a network with both multisig relationships
InitTasks == InitSession /\ chain = {<<"TA", "TB">>, <<"TA", "TX">>}

SpecTasks == InitTasks /\ [][NextTasks]_vars

(***************************************************************************)
(* Accounts repository: create, read, update, delete                       *)
(***************************************************************************)
\* mutant: create stores the model before it verifies uniqueness
Create_SetsBeforeUniquenessCheck(coll, values) ==
  IF ~HasIdentifier(values) THEN Left(coll, "thrown", FALSE, "")
  ELSE LET identifier == GetIdentifier(values)
       IN  IF Find(coll, identifier)
           THEN Left(MapSet(coll, identifier, values), "thrown", FALSE, identifier)
           ELSE Left(MapSet(coll, identifier, values), "returned", TRUE, identifier)

\* create(values)
Create(coll, values) ==
  IF ~HasIdentifier(values) THEN Left(coll, "thrown", FALSE, "")
  ELSE LET identifier == GetIdentifier(values)
       IN  IF Find(coll, identifier)
           THEN Left(coll, "thrown", FALSE, identifier)
           ELSE Left(MapSet(coll, identifier, values), "returned", TRUE, identifier)

\* read(identifier)
Read(coll, identifier) ==
  IF ~Find(coll, identifier) THEN Left(coll, "thrown", FALSE, identifier)
  ELSE Left(coll, "returned", FALSE, identifier)

\* update(identifier, values): the values given are set on the model read,
\* which is stored again under the same identifier
Update(coll, identifier, values) ==
  IF Read(coll, identifier).outcome = "thrown"
  THEN Left(coll, "thrown", FALSE, identifier)
  ELSE LET previous == coll[identifier]
           updated == [k \in DOMAIN previous \cup DOMAIN values |->
                         IF k \in DOMAIN values THEN values[k] ELSE previous[k]]
       IN  Left(MapSet(coll, identifier, updated), "returned", TRUE, identifier)

\* delete(identifier); Map.delete on an identifier just found returns true
Delete(coll, identifier) ==
  IF ~Find(coll, identifier) THEN Left(coll, "thrown", FALSE, identifier)
  ELSE Left(MapDelete(coll, identifier), "returned", TRUE, identifier)

\* the repository after an operation: persist() writes the collection to the
\* storage
Leaves(r, op) ==
  /\ collection' = r.collection
  /\ storage' = IF r.persisted THEN r.collection ELSE storage
  /\ repoOp' = [op |-> op, identifier |-> r.identifier, outcome |-> r.outcome,
                persisted |-> r.persisted]
  /\ UNCHANGED <<stageVars, subsVars, sessionVars>>

create(values) ==
  /\ LET r == Create(collection, values)
     IN  /\ Leaves(r, "create")
         /\ created' = IF r.outcome = "returned"
                        THEN created \cup {r.identifier} ELSE created

read(identifier) ==
  /\ Leaves(Read(collection, identifier), "read")
  /\ created' = created

update(identifier, values) ==
  /\ Leaves(Update(collection, identifier, values), "update")
  /\ created' = created

delete(identifier) ==
  /\ LET r == Delete(collection, identifier)
     IN  /\ Leaves(r, "delete")
         /\ created' = IF r.outcome = "returned"
                        THEN created \ {identifier} ELSE created

NextRepository ==
  \/ \E values \in Values : create(values)
  \/ \E identifier \in AccountNames : read(identifier)
  \/ \E identifier \in AccountNames, values \in Values : update(identifier, values)
  \/ \E identifier \in AccountNames : delete(identifier)

SpecRepository == Init /\ [][NextRepository]_vars

(***************************************************************************)
(* Properties of the signed transaction list and the announce actions      *)
(***************************************************************************)
\* `signed` without its first entry of the given hash, the others in order
WithoutFirstMatch(signed, hash) ==
  IF CountHash(signed, hash) = 0 THEN signed
  ELSE LET i == FindIndexByHash(signed, hash) + 1
       IN  SubSeq(signed, 1, i - 1) \o SubSeq(signed, i + 1, Len(signed))

PartialSettles ==
  /\ call.op = "REST_ANNOUNCE_PARTIAL" /\ call.pc = "awaiting" /\ call'.pc = "done"
TransactionSettles ==
  /\ call.op = "REST_ANNOUNCE_TRANSACTION" /\ call.pc = "awaiting" /\ call'.pc = "done"

\* C1: a removeSignedTransaction commit removes exactly the first entry whose
\* hash equals the given one and keeps every other entry, in its order.
C1_UnsignRemovesFirstMatchOnly ==
  [][\A t \in SignedTransaction :
       removeSignedTransaction(t) =>
         signedTransactions' = WithoutFirstMatch(signedTransactions, t.hash)]_vars

\* C2: REST_ANNOUNCE_PARTIAL settled by an error of the underlying announce
\* resolves to a failure BroadcastResult carrying that error.
C2_PartialErrorGivesFailure ==
  (call.op = "REST_ANNOUNCE_PARTIAL" /\ call.pc = "done" /\ call.settledBy = "error")
    => /\ call.result.kind = "BroadcastResult"
       /\ call.result.success = FALSE
       /\ call.result.error \in NetworkErrors

\* C3 as stated: when REST_ANNOUNCE_PARTIAL completes, whatever the outcome,
\* no entry of the signed list has the lock's or the partial's hash, and the
\* removal has run once.
C3_PartialLeavesBothAbsent ==
  [][PartialSettles =>
       /\ CountHash(signedTransactions', call.signedLock.hash) = 0
       /\ CountHash(signedTransactions', call.subject.hash) = 0
       /\ call'.removals = 1]_vars

\* C3 amended: when REST_ANNOUNCE_PARTIAL completes, whatever the outcome, the
\* removal has run exactly once: the lock and the partial each have an entry
\* fewer than before (none if they had at most one), and nothing after the
\* completion runs the removal again.
C3_PartialRemovesBothOnce ==
  [][/\ PartialSettles =>
          /\ \A h \in {call.signedLock.hash, call.subject.hash} :
               CountHash(signedTransactions', h)
                 <= Max(0, CountHash(signedTransactions, h) - 1)
          /\ call'.removals = 1
     /\ (call.pc = "done" /\ call'.pc = "done") =>
          /\ call'.removals = call.removals
          /\ signedTransactions' # signedTransactions
               => \E t \in SignedTransaction : removeSignedTransaction(t)
                                                 \/ addSignedTransaction(t)]_vars

C3_Witness ==
  /\ call.op = "REST_ANNOUNCE_PARTIAL" /\ call.pc = "done"
  /\ call.settledBy = "timeout" /\ call.late = "confirmed"
  /\ call.lockWasSigned /\ call.subjectWasSigned
  /\ call.signedLock # call.subject
  /\ call.removals = 1
  /\ CountHash(signedTransactions, call.signedLock.hash) = 0
  /\ CountHash(signedTransactions, call.subject.hash) = 0

\* C4: every announce action that completes has produced a BroadcastResult.
C4_AnnounceAlwaysGivesResult ==
  call.pc = "done" => call.result.kind = "BroadcastResult"

\* C5 as stated: REST_ANNOUNCE_TRANSACTION announces once, resolves to a
\* success result carrying the transaction or a failure result carrying the
\* error description, and leaves no entry with the transaction's hash.
C5_SingleLeavesAbsent ==
  [][TransactionSettles =>
       /\ call'.announces = 1
       /\ call'.result.kind = "BroadcastResult"
       /\ call'.result.subject = call.subject
       /\ call'.settledBy = "ok" => call'.result.success
       /\ call'.settledBy = "error" =>
            /\ ~call'.result.success
            /\ \E e \in NetworkErrors : call'.result.error = ErrorToString(e)
       /\ CountHash(signedTransactions', call.subject.hash) = 0]_vars

\* C5 amended: REST_ANNOUNCE_TRANSACTION announces once, resolves to a success
\* result carrying the transaction or a failure result carrying the error
\* description, and in both cases has removed the transaction once: it has an
\* entry fewer than before, none if it had at most one.
C5_SingleRemovesOnce ==
  [][TransactionSettles =>
       /\ call'.announces = 1
       /\ call'.removals = 1
       /\ call'.result.kind = "BroadcastResult"
       /\ call'.result.subject = call.subject
       /\ call'.settledBy = "ok" => call'.result.success
       /\ call'.settledBy = "error" =>
            /\ ~call'.result.success
            /\ \E e \in NetworkErrors : call'.result.error = ErrorToString(e)
       /\ CountHash(signedTransactions', call.subject.hash)
            <= Max(0, CountHash(signedTransactions, call.subject.hash) - 1)]_vars

C5_Witness ==
  /\ call.op = "REST_ANNOUNCE_TRANSACTION" /\ call.pc = "done"
  /\ call.settledBy = "error" /\ call.subjectWasSigned
  /\ ~call.result.success
  /\ CountHash(signedTransactions, call.subject.hash) = 0
  /\ Len(signedTransactions) > 0

\* C6: the first of (confirmation, timeout) decides REST_ANNOUNCE_PARTIAL: a
\* timeout gives a failure result with the timeout message and nothing is
\* thrown, a confirmation gives a success result, and the event that comes
\* later leaves that result as it is.
C6_FirstEventDecides ==
  (call.op = "REST_ANNOUNCE_PARTIAL" /\ call.pc = "done") =>
    /\ call.settledBy = "timeout" =>
         call.result = BroadcastResult(call.subject, FALSE, TimeoutMessage)
    /\ call.settledBy = "confirmed" =>
         call.result = BroadcastResult(call.subject, TRUE, "")

C6_Witness ==
  /\ call.op = "REST_ANNOUNCE_PARTIAL" /\ call.pc = "done"
  /\ call.settledBy = "timeout" /\ call.late = "confirmed"
  /\ call.result = BroadcastResult(call.subject, FALSE, TimeoutMessage)

\* C18: a removeSignedTransaction commit for a transaction whose hash no
\* entry has, dispatched directly or by an announce, leaves the signed list as
\* it was, same entries in the same order (the commit cannot fail).
C18_UnsignAbsentIsNoOp ==
  [][/\ \A t \in SignedTransaction :
          (removeSignedTransaction(t) /\ CountHash(signedTransactions, t.hash) = 0)
            => signedTransactions' = signedTransactions
     /\ (TransactionSettles /\ CountHash(signedTransactions, call.subject.hash) = 0)
          => signedTransactions' = signedTransactions]_vars

C18_Witness ==
  /\ call.op = "REST_ANNOUNCE_TRANSACTION" /\ call.pc = "done"
  /\ call.removals = 1 /\ ~call.subjectWasSigned
  /\ Len(signedTransactions) = 2
  /\ signedTransactions[1] # signedTransactions[2]

(***************************************************************************)
(* Properties of the subscription registry                                 *)
(***************************************************************************)
\* the handles opened for an address, and the close calls a handle received
HandlesOpenedFor(plainAddress) ==
  UNION {{opened[i].handles.listener}
           \cup {opened[i].handles.subscriptions[j] :
                   j \in 1..Len(opened[i].handles.subscriptions)} :
         i \in {k \in 1..Len(opened) : opened[k].address = plainAddress}}
CloseCalls(h) == Cardinality({i \in 1..Len(closeLog) : closeLog[i] = h})

\* C7: after unsubscribe(addr) that follows the subscribes of addr, the
\* registry has no entry for addr and every handle opened for addr has
\* received exactly one close call.
C7_UnsubscribeClosesEachOnce ==
  (lastOp.op = "UNSUBSCRIBE") =>
    /\ lastOp.address \notin DOMAIN subscriptions
    /\ \A h \in HandlesOpenedFor(lastOp.address) : CloseCalls(h) = 1

\* C8: when a close call fails during unsubscribe(address), every handle
\* registered under the address is still closed, the address is removed from
\* the registry, and the unsubscribe returns to its caller.
C8_CloseFailureDoesNotAbort ==
  (lastOp.op = "UNSUBSCRIBE" /\ lastOp.failAt # 0) =>
    /\ lastOp.outcome = "returned"
    /\ lastOp.address \notin DOMAIN subscriptions
    /\ \A h \in HandlesOpenedFor(lastOp.address) : CloseCalls(h) >= 1

\* the position of the first close call on handle h in a sequence of close
\* calls, 0 when there is none
ClosedAt(calls, h) ==
  IF \E i \in 1..Len(calls) : calls[i] = h
  THEN CHOOSE i \in 1..Len(calls) :
         calls[i] = h /\ \A j \in 1..(i - 1) : calls[j] # h
  ELSE 0
\* in the close calls, the entry set's stream handles are all closed, and
\* before its listener
StreamsThenListener(calls, subscriptionType) ==
  \A j \in 1..Len(subscriptionType.subscriptions) :
    /\ 0 < ClosedAt(calls, subscriptionType.subscriptions[j])
    /\ ClosedAt(calls, subscriptionType.subscriptions[j])
         < ClosedAt(calls, subscriptionType.listener)

\* C20: an UNSUBSCRIBE of an address with entry sets closes the stream handles
\* of an entry set before its listener, for every entry set whose listener it
\* closes, and it removes the address from the registry only when its close
\* calls have covered every entry set; when no close call fails that is the
\* case, and the address is removed.
C20_StreamsBeforeListenerThenRemove ==
  [][\A p \in SubscribedAddresses, f \in 0..(MaxOpened * (NumStreams + 1)) :
       (UNSUBSCRIBE(p, f) /\ Len(SubscriptionsOf(subscriptions, p)) > 0) =>
         LET registered == SubscriptionsOf(subscriptions, p)
             calls == SubSeq(closeLog', Len(closeLog) + 1, Len(closeLog'))
         IN  /\ \A i \in 1..Len(registered) :
                  ClosedAt(calls, registered[i].listener) > 0
                    => StreamsThenListener(calls, registered[i])
             /\ p \notin DOMAIN subscriptions'
                  => \A i \in 1..Len(registered) : StreamsThenListener(calls, registered[i])
             /\ f = 0 => p \notin DOMAIN subscriptions']_vars

C20_Witness ==
  /\ lastOp.op = "UNSUBSCRIBE" /\ lastOp.outcome = "returned"
  /\ lastOp.address \notin DOMAIN subscriptions
  /\ Cardinality(HandlesOpenedFor(lastOp.address)) = 2 * (NumStreams + 1)
  /\ Len(closeLog) = 2 * (NumStreams + 1)
  /\ \A h \in HandlesOpenedFor(lastOp.address) : CloseCalls(h) = 1

(***************************************************************************)
(* Properties of the session                                               *)
(***************************************************************************)
\* C9: between session actions, isCosignatoryMode is true exactly when the
\* current signer address differs from the current account address.
C9_CosignatoryModeIffSignerDiffers ==
  state.isCosignatoryMode <=> (state.currentSignerAddress # state.currentAccountAddress)

\* C10: between session actions, every address with entries in the
\* subscription registry is the current signer address.
C10_OnlyCurrentSignerSubscribed ==
  \A a \in DOMAIN subscriptions : a = Plain(state.currentSignerAddress)

\* the last three transitions went from a signer to another and back, with the
\* same answer to the multisig request each time
RoundTrip ==
  /\ Len(trail) = 3
  /\ trail[1].publicKey = trail[3].publicKey
  /\ trail[2].publicKey # trail[1].publicKey
  /\ trail[1].msFails = trail[2].msFails /\ trail[2].msFails = trail[3].msFails

SessionUntouched ==
  /\ state' = state
  /\ subscriptions' = subscriptions
  /\ opened' = opened
  /\ closeLog' = closeLog

\* C14: SET_CURRENT_ACCOUNT with an account whose address is the current
\* account's address does nothing: no subscribe, no unsubscribe, no signer
\* change or other step, and the session state stays as it was.
C14_SameAccountIsNoOp ==
  [][\A id \in {"A", "B"}, msFails, aiFails \in BOOLEAN :
       (/\ state.currentAccount # NoAccount
        /\ state.currentAccount.address = AccountModel(id).address
        /\ sessionOp'.arg = id
        /\ SET_CURRENT_ACCOUNT(id, msFails, aiFails))
         => /\ SessionUntouched
            /\ sessionOp'.steps = <<>>
            /\ sessionOp'.outcome = "returned"]_vars

C14_Witness ==
  /\ sessionOp.op = "SET_CURRENT_ACCOUNT" /\ sessionOp.steps = <<>>
  /\ sessionOp.outcome = "returned"
  /\ state.currentAccount = AccountModel(sessionOp.arg)
  /\ state.initialized
  /\ Plain(state.currentSignerAddress) \in DOMAIN subscriptions

\* C15: SET_CURRENT_SIGNER with an empty public key fails before it changes
\* anything: no field of the session state changes, no reset or notification
\* is dispatched, and no subscription is opened or closed.
C15_EmptyKeyFailsFirst ==
  [][\A msFails, aiFails \in BOOLEAN :
       (sessionOp'.arg = "" /\ SET_CURRENT_SIGNER("", msFails, aiFails))
         => /\ SessionUntouched
            /\ sessionOp'.steps = <<>>
            /\ sessionOp'.outcome = "thrown"]_vars

C15_Witness ==
  /\ sessionOp.op = "SET_CURRENT_SIGNER" /\ sessionOp.arg = ""
  /\ sessionOp.outcome = "thrown" /\ sessionOp.steps = <<>>
  /\ state.currentAccount # NoAccount
  /\ state.isCosignatoryMode
  /\ Plain(state.currentSignerAddress) \in DOMAIN subscriptions

\* the addresses of the current signers and of the known accounts
SignerAndAccountAddresses ==
  {state.signers[i].address : i \in 1..Len(state.signers)}
    \cup {CreateFromRawAddress(state.knownAccounts[i].address) :
            i \in 1..Len(state.knownAccounts)}

\* C16: between store actions, knownAddresses holds, each once, exactly the
\* addresses of the current signers and of the known accounts.
C16_KnownAddressesIsUnion ==
  /\ {state.knownAddresses[i] : i \in 1..Len(state.knownAddresses)}
       = SignerAndAccountAddresses
  /\ Len(state.knownAddresses) = Cardinality(SignerAndAccountAddresses)

\* C17: between session actions run one after another, no address has more
\* than one entry set in the subscription registry.
C17_OneEntrySetPerAddress ==
  \A a \in DOMAIN subscriptions : Len(subscriptions[a]) <= 1

\* the position of a step among the steps of the last session action, 0 when
\* it did not run
StepAt(name) ==
  IF \E i \in 1..Len(sessionOp.steps) : sessionOp.steps[i] = name
  THEN CHOOSE i \in 1..Len(sessionOp.steps) : sessionOp.steps[i] = name
  ELSE 0
\* both steps ran, a before b
Precedes(a, b) == 0 < StepAt(a) /\ StepAt(a) < StepAt(b)

\* C19: in a SET_CURRENT_SIGNER call that changes the signer, the transaction
\* reset is dispatched before the address fields are committed, the
\* SIGNER_CHANGED notifications follow the commits, the unsubscribe of the
\* previous signer comes before the subscribe of the new one, the account info
\* reload comes after the subscribe, and the namespace and mosaic loads come
\* only after the reload has completed.
C19_SignerChangeStepOrder ==
  StepAt("commit") > 0 =>
    /\ Precedes("transaction/RESET_TRANSACTIONS", "commit")
    /\ \A n \in {"namespace/SIGNER_CHANGED", "mosaic/SIGNER_CHANGED",
                 "transaction/SIGNER_CHANGED"} : Precedes("commit", n)
    /\ StepAt("UNSUBSCRIBE") > 0 => Precedes("UNSUBSCRIBE", "SUBSCRIBE")
    /\ Precedes("SUBSCRIBE", "LOAD_ACCOUNT_INFO")
    /\ \A n \in {"namespace/LOAD_NAMESPACES", "mosaic/LOAD_MOSAICS"} :
         IF sessionOp.outcome = "returned"
         THEN Precedes("LOAD_ACCOUNT_INFO", n)
         ELSE StepAt(n) = 0

C19_Witness ==
  /\ sessionOp.op = "SET_CURRENT_SIGNER" /\ sessionOp.outcome = "returned"
  /\ Precedes("UNSUBSCRIBE", "SUBSCRIBE")
  /\ Precedes("LOAD_ACCOUNT_INFO", "mosaic/LOAD_MOSAICS")
  /\ state.isCosignatoryMode
  /\ Len(closeLog) > 0

\* the reload that follows a failed multisig graph request has left the store
\* as for an account with no multisig relationship
DegradedReload(aiFails) ==
  /\ sessionOp'.outcome = (IF aiFails THEN "thrown" ELSE "returned")
  /\ state'.multisigAccountsInfo = <<>>
  /\ state'.currentAccountMultisigInfo = NoMultisigInfo
  /\ state'.currentSignerMultisigInfo = NoMultisigInfo
  /\ Len(state'.signers) = 1
  /\ state'.signers[1].address = CreateFromRawAddress(state'.currentAccount.address)
  /\ ~state'.signers[1].multisig

\* C21: when the multisig graph request fails, LOAD_ACCOUNT_INFO does not fail
\* for it (the action still fails exactly when the accounts info request
\* fails): multisigAccountsInfo is empty, currentAccountMultisigInfo and
\* currentSignerMultisigInfo are absent, and the signers are the account alone,
\* not multisig.
C21_MultisigFailureDegrades ==
  [][\A aiFails \in BOOLEAN :
       /\ \A publicKey \in PublicKeys :
            (/\ state.currentAccount # NoAccount
             /\ state.currentSignerAddress # CreateFromPublicKey(publicKey)
             /\ sessionOp'.arg = publicKey
             /\ SET_CURRENT_SIGNER(publicKey, TRUE, aiFails))
              => DegradedReload(aiFails)
       /\ \A id \in {"A", "B"} :
            (/\ state.currentAccount.address # AccountModel(id).address
             /\ Plain(state.currentSignerAddress) # AccountModel(id).address
             /\ sessionOp'.arg = id
             /\ SET_CURRENT_ACCOUNT(id, TRUE, aiFails))
              => DegradedReload(aiFails)]_vars

C21_Witness ==
  /\ sessionOp.op = "SET_CURRENT_SIGNER" /\ sessionOp.outcome = "returned"
  /\ Len(trail) > 0 /\ trail[Len(trail)].msFails
  /\ state.currentAccount = AccountModel("A")
  /\ chain = {<<"TA", "TB">>, <<"TA", "TX">>}
  /\ state.isCosignatoryMode
  /\ state.multisigAccountsInfo = <<>>
  /\ Len(state.signers) = 1

\* C22: SET_CURRENT_SIGNER with a public key whose address is the current
\* signer address does nothing: no reset or notification is dispatched, no
\* subscription is closed or opened, no account info is reloaded, and the
\* session state stays as it was.
C22_SameSignerIsNoOp ==
  [][\A publicKey \in PublicKeys, msFails, aiFails \in BOOLEAN :
       (/\ state.currentSignerAddress = CreateFromPublicKey(publicKey)
        /\ sessionOp'.arg = publicKey
        /\ SET_CURRENT_SIGNER(publicKey, msFails, aiFails))
         => /\ SessionUntouched
            /\ sessionOp'.steps = <<>>
            /\ sessionOp'.outcome = "returned"]_vars

C22_Witness ==
  /\ sessionOp.op = "SET_CURRENT_SIGNER" /\ sessionOp.arg \in PublicKeys
  /\ sessionOp.steps = <<>> /\ sessionOp.outcome = "returned"
  /\ state.currentSignerAddress = CreateFromPublicKey(sessionOp.arg)
  /\ state.isCosignatoryMode
  /\ Len(state.signers) > 1
  /\ Plain(state.currentSignerAddress) \in DOMAIN subscriptions

C24_AccountAddressFollowsAccount ==
  (sessionOp.op = "SET_CURRENT_ACCOUNT" /\ sessionOp.outcome = "returned")
    => state.currentAccountAddress = CreateFromRawAddress(state.currentAccount.address)

\* C25: after uninitialize of the current account's address on an initialized
\* session, the subscription registry is empty, also when the current signer
\* address differs from the account address.
C25_UninitializeEmptiesRegistry ==
  [][\A address \in PlainAddresses :
       (/\ state.initialized
        /\ state.currentAccount.address = address
        /\ sessionOp'.arg = address
        /\ uninitialize(address))
         => DOMAIN subscriptions' = {}]_vars

\* the last action was SET_CURRENT_SIGNER, it returned, and the address of its
\* public key is the current account's or a multisig account the current
\* account cosigns
SetSignerOfAccountReturned ==
  /\ sessionOp.op = "SET_CURRENT_SIGNER" /\ sessionOp.outcome = "returned"
  /\ state.currentAccount # NoAccount
  /\ LET signer == Plain(CreateFromPublicKey(sessionOp.arg))
     IN  \/ signer = state.currentAccount.address
         \/ <<state.currentAccount.address, signer>> \in chain

\* C26: after a SET_CURRENT_SIGNER call that completes without error,
\* currentSigner is one of signers and its address is currentSignerAddress,
\* whatever the multisig graph request answered.
C26_CurrentSignerAmongSigners ==
  SetSignerOfAccountReturned =>
    /\ \E i \in 1..Len(state.signers) : state.signers[i] = state.currentSigner
    /\ state.currentSigner.address = state.currentSignerAddress

\* the step is a SET_CURRENT_ACCOUNT or SET_CURRENT_SIGNER call that failed in
\* LOAD_ACCOUNT_INFO, at the accounts info request
FailsAtAccountsInfo ==
  /\ sessionOp'.op \in {"SET_CURRENT_ACCOUNT", "SET_CURRENT_SIGNER"}
  /\ sessionOp'.outcome = "thrown"
  /\ \E i \in 1..Len(sessionOp'.steps) : sessionOp'.steps[i] = "LOAD_ACCOUNT_INFO"
  /\ \/ \E id \in {"A", "B"}, msFails \in BOOLEAN :
          sessionOp'.arg = id /\ SET_CURRENT_ACCOUNT(id, msFails, TRUE)
     \/ \E publicKey \in PublicKeys, msFails \in BOOLEAN :
          sessionOp'.arg = publicKey /\ SET_CURRENT_SIGNER(publicKey, msFails, TRUE)

\* C27: a SET_CURRENT_ACCOUNT or SET_CURRENT_SIGNER call that fails because the
\* accounts info request of LOAD_ACCOUNT_INFO fails leaves the current account,
\* the current signer address, isCosignatoryMode, signers, the subscription
\* registry and the initialized flag as they were before the call.
C27_FailedReloadLeavesSession ==
  [][FailsAtAccountsInfo
       => /\ state'.currentAccount = state.currentAccount
          /\ state'.currentSignerAddress = state.currentSignerAddress
          /\ state'.isCosignatoryMode = state.isCosignatoryMode
          /\ state'.signers = state.signers
          /\ subscriptions' = subscriptions
          /\ state'.initialized = state.initialized]_vars

(***************************************************************************)
(* Properties of interleaved session actions                               *)
(***************************************************************************)
\* two SET_CURRENT_SIGNER calls have both ended: the first was dispatched on a
\* quiet store, the second while the first was in flight, and no other call
\* since
BothSignerCallsCompleted ==
  /\ \A t \in Tasks :
       /\ tasks[t].op = "SET_CURRENT_SIGNER" /\ tasks[t].pc = "done"
       /\ tasks[t].outcome = "returned" /\ tasks[t].overlapped
  /\ \E t \in Tasks : tasks[t].quiet

\* C11: once two SET_CURRENT_SIGNER calls that were in flight together have
\* both completed, whatever their interleaving, the registry holds exactly one
\* entry set, under the current signer address, and so no handle set opened
\* for an intermediate signer is still registered.
C11_ConcurrentSignerCallsSerialized ==
  BothSignerCallsCompleted =>
    /\ DOMAIN subscriptions = {Plain(state.currentSignerAddress)}
    /\ \A a \in DOMAIN subscriptions : Len(subscriptions[a]) = 1

\* the tasks inside the callback of initialize or of uninitialize
InLockedBody(t) == tasks[t].pc \in {"initialized", "closed"}

\* C12: the bodies of initialize and uninitialize never run together, and when
\* the logout of a session (uninitialize of its address, dispatched on a quiet
\* store) is followed by a login (SET_CURRENT_ACCOUNT) without waiting, no
\* teardown step of the logout runs after a setup step of the login.
C12_LogoutLoginDoNotInterleave ==
  /\ Cardinality({t \in Tasks : InLockedBody(t)}) <= 1
  /\ \A t \in Tasks :
       (tasks[t].op = "uninitialize" /\ tasks[t].quiet) => ~tasks[t].late

\* C28: once two overlapping SET_CURRENT_SIGNER calls with different signers
\* have both completed, whatever the order of the network's answers,
\* currentSigner and currentSignerMultisigInfo are those of the signer named by
\* currentSignerAddress, taken from the signers and the multisig infos held.
C28_LateReloadDoesNotOverwrite ==
  (BothSignerCallsCompleted /\ tasks["first"].arg # tasks["second"].arg) =>
    /\ state.currentSigner = FindSigner(state.signers, state.currentSignerAddress)
    /\ state.currentSignerMultisigInfo
         = FindMultisigInfo(state.multisigAccountsInfo, state.currentSignerAddress)

(***************************************************************************)
(* Properties of the accounts repository                                   *)
(***************************************************************************)
\* the operation threw and left the collection and the storage as they were
Rejected ==
  /\ repoOp'.outcome = "thrown"
  /\ ~repoOp'.persisted
  /\ collection' = collection
  /\ storage' = storage

\* C29: create with values that lack the identifier or whose identifier is
\* present, and read, update or delete of an identifier that is not present,
\* throw, leave the collection as it was and persist nothing, as does every
\* operation that throws; and after every operation find(id) is true exactly
\* for the identifiers created and not deleted since.
C29_RejectedLeavesRepository ==
  [][/\ \A values \in Values :
          (/\ ~HasIdentifier(values) \/ GetIdentifier(values) \in created
           /\ create(values)) => Rejected
     /\ \A identifier \in AccountNames \ created :
          (\/ read(identifier)
           \/ delete(identifier)
           \/ \E values \in Values : update(identifier, values)) => Rejected
     /\ repoOp'.outcome = "thrown" => Rejected
     /\ \A identifier \in AccountNames :
          Find(collection', identifier) <=> identifier \in created']_vars

\* a second create of an identifier was rejected, after an update had given
\* the model stored under it the name of an identifier that is not present
C29_Witness ==
  /\ repoOp.op = "create" /\ repoOp.outcome = "thrown"
  /\ repoOp.identifier \in created
  /\ created # AccountNames
  /\ storage = collection
  /\ collection[repoOp.identifier][PrimaryKey] \in AccountNames \ created

=============================================================================
